---- MODULE Spec2Model ----
(***************************************************************************)
(* A model of convert_images.py: the batch image converter.                *)
(*                                                                         *)
(* Strings are sequences of one-character strings, so that lower(),        *)
(* upper(), lstrip(), the glob pattern and Path.with_suffix() are computed *)
(* character by character as Python computes them.  The image library      *)
(* (Wand / ImageMagick) is an external collaborator: every request to it   *)
(* may succeed or raise, and the requests are recorded in libLog.  Path    *)
(* and glob follow pathlib on a POSIX platform (the script targets macOS:  *)
(* brew, DYLD_LIBRARY_PATH), where glob matching is case-sensitive and     *)
(* "*" also matches names that start with a dot.                           *)
(***************************************************************************)
EXTENDS Integers, Sequences, FiniteSets, TLC

VARIABLES
    folderKind,   \* what folder_path names: "missing", "file" or "dir"
    fs0,          \* the folder's files when the run starts (history)
    fs,           \* the file system: path -> content
    args,         \* the parsed command line
    pc,           \* position of the run
    caller,       \* who called convert_image: "batch" or "direct"
    image_files,  \* list(folder.glob(pattern))
    idx,          \* position of the for loop in image_files
    successful,   \* counter of line 119
    failed,       \* counter of line 120
    stdout,       \* everything printed so far
    call,         \* the frame of the running convert_image call
    libLog,       \* requests the running call made to the image library
    result,       \* return value of the last convert_image call
    calls,        \* input paths convert_image was called with (history)
    outcomes,     \* how each call ended: "true", "false" or "raised" (history)
    outputs,      \* output path each call resolved (history)
    written       \* paths a save wrote to (history)

vars == <<folderKind, fs0, fs, args, pc, caller, image_files, idx, successful,
          failed, stdout, call, libLog, result, calls, outcomes, outputs, written>>

(***************************************************************************)
(* Bounds of the model.                                                    *)
(***************************************************************************)
MaxFiles == 2     \* files in the folder

(***************************************************************************)
(* Python values.                                                          *)
(***************************************************************************)
None == <<>>
Some(v) == <<v>>

\* Python truthiness of an optional int: None and 0 are falsy.
Truthy(opt) == opt # None /\ opt[1] # 0

lowerChar(c) ==
    CASE c = "A" -> "a" [] c = "B" -> "b" [] c = "C" -> "c"
      [] c = "P" -> "p" [] c = "S" -> "s" [] OTHER -> c

upperChar(c) ==
    CASE c = "a" -> "A" [] c = "b" -> "B" [] c = "c" -> "C"
      [] c = "p" -> "P" [] c = "s" -> "S" [] OTHER -> c

\* str.lower()
lower(s) == [i \in 1..Len(s) |-> lowerChar(s[i])]

\* str.upper()
upper(s) == [i \in 1..Len(s) |-> upperChar(s[i])]

\* str.lstrip(ch): every leading ch is removed, not only the first.
RECURSIVE lstrip(_, _)
lstrip(s, ch) ==
    IF s # <<>> /\ Head(s) = ch THEN lstrip(Tail(s), ch) ELSE s

\* str(n) for an int: decimal digits, with a sign.
DigitChar(d) == <<"0", "1", "2", "3", "4", "5", "6", "7", "8", "9">>[d + 1]

RECURSIVE Digits(_)
Digits(n) ==
    IF n < 10 THEN <<DigitChar(n)>>
    ELSE Digits(n \div 10) \o <<DigitChar(n % 10)>>

IntStr(n) == IF n < 0 THEN <<"-">> \o Digits(0 - n) ELSE Digits(n)

(***************************************************************************)
(* pathlib.                                                                *)
(***************************************************************************)
Path(dir, name) == [dir |-> dir, name |-> name]

\* str.rfind(ch), 1-based; 0 when ch does not occur.
rfind(s, ch) ==
    LET hits == {i \in 1..Len(s) : s[i] = ch}
    IN  IF hits = {} THEN 0 ELSE CHOOSE i \in hits : \A j \in hits : j <= i

\* PurePath.suffix: from the last dot on, unless that dot is the first or
\* the last character of the name.
suffix(name) ==
    LET i == rfind(name, ".")
    IN  IF 1 < i /\ i < Len(name) THEN SubSeq(name, i, Len(name)) ELSE <<>>

\* The ValueError cases of PurePath.with_suffix.  A suffix that is a lone
\* "." raises up to Python 3.13 and is accepted from 3.14 on (loneDotOk).
with_suffix_raises(p, sfx, loneDotOk) ==
    \/ \E i \in 1..Len(sfx) : sfx[i] = "/"
    \/ sfx # <<>> /\ Head(sfx) # "."
    \/ sfx = <<".">> /\ ~loneDotOk
    \/ p.name = <<>>

\* with_suffix with the bug of appending without cutting the old suffix off.
with_suffix_appending(p, sfx) == Path(p.dir, p.name \o sfx)

\* PurePath.with_suffix: the old suffix is cut off, the new one appended.
with_suffix(p, sfx) ==
    LET old == suffix(p.name)
    IN  Path(p.dir, SubSeq(p.name, 1, Len(p.name) - Len(old)) \o sfx)

\* fnmatch of one name against a pattern: "*" any run, "?" any character.
RECURSIVE fnmatch(_, _)
fnmatch(name, pat) ==
    IF pat = <<>> THEN name = <<>>
    ELSE IF Head(pat) = "*"
         THEN \/ fnmatch(name, Tail(pat))
              \/ name # <<>> /\ fnmatch(Tail(name), pat)
    ELSE IF name = <<>> THEN FALSE
    ELSE /\ Head(pat) = "?" \/ Head(pat) = Head(name)
         /\ fnmatch(Tail(name), Tail(pat))

Folder == "imgs"

\* Path.glob(pattern) in the folder: non-recursive, case-sensitive.
glob(files, pat) ==
    {p \in DOMAIN files : p.dir = Folder /\ fnmatch(p.name, pat)}

\* is_dir with the bug of taking every existing path for a directory.
folder_is_dir_any == folderKind # "missing"

\* Path.exists() and Path.is_dir() of the folder.
folder_exists == folderKind # "missing"
folder_is_dir == folderKind = "dir"

(***************************************************************************)
(* The inputs the model draws from.                                        *)
(***************************************************************************)
Names ==
    { <<"a", ".", "s">>,        \* a.s
      <<"b", ".", "S">>,        \* b.S   upper-case extension
      <<".", "s">>,             \* .s    hidden file, no pathlib suffix
      <<".", "s", ".", "s">>,   \* .s.s
      <<"a", ".", "p">>,        \* a.p
      <<"c">> }                 \* c     no extension

FolderPaths == {Path(Folder, n) : n \in Names}

\* --from values: s, .S, *
FromFormats == { <<"s">>, <<".", "S">>, <<"*">> }

\* --to values: .P, s, ".", /
ToFormats == { <<".", "P">>, <<"s">>, <<".">>, <<"/">> }

\* --width: absent, zero, negative, positive.
Widths == {None, Some(0), Some(0 - 1), Some(12)}

\* --height: absent, zero, positive.
Heights == {None, Some(0), Some(3)}

\* --quality: absent or 80.
Qualities == {None, Some(80)}

\* An output_path a direct caller of convert_image may pass.
ExplicitOutput == Path("out", <<"o", ".", "P">>)

Perms(S) ==
    {s \in [1..Cardinality(S) -> S] : \A i, j \in DOMAIN s : i # j => s[i] # s[j]}

Extend(f, q, c) == [p \in DOMAIN f \cup {q} |-> IF p = q THEN c ELSE f[p]]

(***************************************************************************)
(* What is printed, and what is asked of the image library.                *)
(***************************************************************************)
Msg(kind, text, n, m) == [kind |-> kind, text |-> text, n |-> n, m |-> m]

NoPath == Path("", <<>>)

Req(op, path, text, num, ok) ==
    [op |-> op, path |-> path, text |-> text, num |-> num, ok |-> ok]

Auto == <<"a", "u", "t", "o">>

\* line 92
NotExistMessage == Msg("not_exist", <<>>, 0, 0)

\* line 96
NotDirMessage == Msg("not_dir", <<>>, 0, 0)

\* The message of line 108 with the bug of leaving out .upper().
NoFilesMessage_as_typed(fmt) == Msg("no_files", fmt, 0, 0)

\* line 108: f"No {input_format.upper()} files found in ..."
NoFilesMessage(fmt) == Msg("no_files", upper(fmt), 0, 0)

\* lines 111-117
Banner(n, in_fmt, out_fmt, width, height, quality) ==
    <<Msg("found", upper(in_fmt), n, 0), Msg("converting_to", upper(out_fmt), 0, 0)>>
    \o (IF Truthy(width) \/ Truthy(height)
        THEN <<Msg("resizing",
                   (IF Truthy(width) THEN IntStr(width[1]) ELSE Auto) \o <<"x">>
                   \o (IF Truthy(height) THEN IntStr(height[1]) ELSE Auto), 0, 0)>>
        ELSE <<>>)
    \o (IF Truthy(quality) THEN <<Msg("quality", <<>>, quality[1], 0)>> ELSE <<>>)
    \o <<Msg("blank", <<>>, 0, 0)>>

\* lines 131-133
SummaryMessage(s, f) == Msg("summary", <<>>, s, f)

\* The geometry of line 62 with the bug of testing "is not None" where the
\* code tests truthiness, so that a 0 is written out.
geometry_not_none(width, height) ==
    (IF width # None THEN IntStr(width[1]) ELSE <<>>) \o <<"x">>
    \o (IF height # None THEN IntStr(height[1]) ELSE <<>>)

\* line 62: f'{width or ""}x{height or ""}'
geometry(width, height) ==
    (IF Truthy(width) THEN IntStr(width[1]) ELSE <<>>) \o <<"x">>
    \o (IF Truthy(height) THEN IntStr(height[1]) ELSE <<>>)

\* lines 100-101
normalize(fmt) == lstrip(lower(fmt), ".")

\* line 104: f'*.{input_format}'
pattern(in_fmt) == <<"*", ".">> \o in_fmt

\* line 56: f'.{output_format.lower()}'
new_suffix(out_fmt) == <<".">> \o lower(out_fmt)

Frame(input_path, out_fmt, output_path, width, height, quality) ==
    [input_path |-> input_path, output_format |-> out_fmt,
     output_path |-> output_path, given_output |-> output_path,
     width |-> width, height |-> height, quality |-> quality]

NoFrame == Frame(NoPath, <<>>, None, None, None, None)

(***************************************************************************)
(* The state after the command line is parsed.                             *)
(***************************************************************************)
Init ==
    /\ folderKind \in {"missing", "file", "dir"}
    /\ fs0 \in IF folderKind = "dir"
               THEN {[p \in S |-> "orig"] :
                        S \in {T \in SUBSET FolderPaths : Cardinality(T) <= MaxFiles}}
               ELSE {[p \in {} |-> "orig"]}
    /\ fs = fs0
    /\ args \in [input_format : FromFormats, output_format : ToFormats,
                 width : Widths, height : Heights, quality : Qualities]
    /\ pc = "start"
    /\ caller = "none"
    /\ image_files = <<>>
    /\ idx = 0
    /\ successful = 0
    /\ failed = 0
    /\ stdout = <<>>
    /\ call = NoFrame
    /\ libLog = <<>>
    /\ result = FALSE
    /\ calls = <<>>
    /\ outcomes = <<>>
    /\ outputs = <<>>
    /\ written = {}

(***************************************************************************)
(* convert_all_images, lines 89-117.                                       *)
(***************************************************************************)
\* lines 91-93
FolderMissing ==
    /\ pc = "start"
    /\ ~folder_exists
    /\ stdout' = Append(stdout, NotExistMessage)
    /\ pc' = "returned"
    /\ caller' = "batch"
    /\ UNCHANGED <<folderKind, fs0, fs, args, image_files, idx, successful, failed,
                   call, libLog, result, calls, outcomes, outputs, written>>

\* lines 95-97
NotADirectory ==
    /\ pc = "start"
    /\ folder_exists
    /\ ~folder_is_dir
    /\ stdout' = Append(stdout, NotDirMessage)
    /\ pc' = "returned"
    /\ caller' = "batch"
    /\ UNCHANGED <<folderKind, fs0, fs, args, image_files, idx, successful, failed,
                   call, libLog, result, calls, outcomes, outputs, written>>

\* lines 100-109
NoFilesFound ==
    /\ pc = "start"
    /\ folder_exists
    /\ folder_is_dir
    /\ glob(fs, pattern(normalize(args.input_format))) = {}
    /\ image_files' = <<>>
    /\ stdout' = Append(stdout, NoFilesMessage(normalize(args.input_format)))
    /\ pc' = "returned"
    /\ caller' = "batch"
    /\ UNCHANGED <<folderKind, fs0, fs, args, idx, successful, failed,
                   call, libLog, result, calls, outcomes, outputs, written>>

\* lines 100-120: the files are listed in the order the file system gives.
FilesFound ==
    /\ pc = "start"
    /\ folder_exists
    /\ folder_is_dir
    /\ glob(fs, pattern(normalize(args.input_format))) # {}
    /\ image_files' \in Perms(glob(fs, pattern(normalize(args.input_format))))
    /\ stdout' = stdout \o Banner(Len(image_files'), normalize(args.input_format),
                                  normalize(args.output_format),
                                  args.width, args.height, args.quality)
    /\ successful' = 0
    /\ failed' = 0
    /\ idx' = 1
    /\ pc' = "loop"
    /\ caller' = "batch"
    /\ UNCHANGED <<folderKind, fs0, fs, args, call, libLog, result,
                   calls, outcomes, outputs, written>>

(***************************************************************************)
(* The for loop of convert_all_images, lines 122-133.                      *)
(***************************************************************************)
\* lines 122-124: the next file is announced and convert_image is called.
LoopCall ==
    /\ pc = "loop"
    /\ idx <= Len(image_files)
    /\ stdout' = Append(stdout, Msg("converting", image_files[idx].name, 0, 0))
    /\ call' = Frame(image_files[idx], normalize(args.output_format), None,
                     args.width, args.height, args.quality)
    /\ calls' = Append(calls, image_files[idx])
    /\ libLog' = <<>>
    /\ pc' = "ci_entry"
    /\ UNCHANGED <<folderKind, fs0, fs, args, caller, image_files, idx, successful,
                   failed, result, outcomes, outputs, written>>

\* lines 124-129: the call returned; its result is printed and tallied.
Tally ==
    /\ pc = "ci_return"
    /\ caller = "batch"
    /\ IF result
       THEN /\ stdout' = Append(stdout, Msg("check", <<>>, 0, 0))
            /\ successful' = successful + 1
            /\ failed' = failed
       ELSE /\ stdout' = Append(stdout, Msg("cross", <<>>, 0, 0))
            /\ failed' = failed + 1
            /\ successful' = successful
    /\ idx' = idx + 1
    /\ pc' = "loop"
    /\ UNCHANGED <<folderKind, fs0, fs, args, caller, image_files, call, libLog,
                   result, calls, outcomes, outputs, written>>

\* lines 131-133: the list is exhausted.
Summary ==
    /\ pc = "loop"
    /\ idx > Len(image_files)
    /\ stdout' = stdout \o <<Msg("complete", <<>>, 0, 0),
                             SummaryMessage(successful, failed)>>
    /\ pc' = "done"
    /\ UNCHANGED <<folderKind, fs0, fs, args, caller, image_files, idx, successful,
                   failed, call, libLog, result, calls, outcomes, outputs, written>>

(***************************************************************************)
(* convert_image, lines 43-74.                                             *)
(***************************************************************************)
\* convert_image called by other code than convert_all_images: the format
\* is not normalized, and an output path may be given.
DirectCall ==
    /\ pc = "start"
    /\ \E p \in DOMAIN fs, out \in {None, Some(ExplicitOutput)} :
          call' = Frame(p, args.output_format, out,
                        args.width, args.height, args.quality)
    /\ calls' = Append(calls, call'.input_path)
    /\ libLog' = <<>>
    /\ caller' = "direct"
    /\ pc' = "ci_entry"
    /\ UNCHANGED <<folderKind, fs0, fs, args, image_files, idx, successful, failed,
                   stdout, result, outcomes, outputs, written>>

\* lines 72-74: an exception inside the try block is printed, False returned.
Except ==
    /\ stdout' = Append(stdout, Msg("error", <<>>, 0, 0))
    /\ result' = FALSE
    /\ outcomes' = Append(outcomes, "false")
    /\ pc' = "ci_return"

\* lines 55-56, before the try block: a ValueError of with_suffix leaves
\* convert_image, and convert_all_images, uncaught.
CiOutputPath ==
    /\ pc = "ci_entry"
    /\ IF call.output_path # None
       THEN /\ outputs' = Append(outputs, call.output_path[1])
            /\ pc' = "ci_open"
            /\ UNCHANGED <<call, outcomes>>
       ELSE \E loneDotOk \in BOOLEAN :
              IF with_suffix_raises(call.input_path, new_suffix(call.output_format),
                                    loneDotOk)
              THEN /\ pc' = "raised"
                   /\ outcomes' = Append(outcomes, "raised")
                   /\ UNCHANGED <<call, outputs>>
              ELSE /\ call' = [call EXCEPT !.output_path =
                                  Some(with_suffix(call.input_path,
                                                   new_suffix(call.output_format)))]
                   /\ outputs' = Append(outputs, call'.output_path[1])
                   /\ pc' = "ci_open"
                   /\ UNCHANGED outcomes
    /\ UNCHANGED <<folderKind, fs0, fs, args, caller, image_files, idx, successful,
                   failed, stdout, libLog, result, calls, written>>

\* line 59: WandImage(filename=str(input_path)); a missing file cannot open.
CiOpen ==
    /\ pc = "ci_open"
    /\ \E ok \in BOOLEAN :
          /\ ok => call.input_path \in DOMAIN fs
          /\ libLog' = Append(libLog, Req("open", call.input_path, <<>>, 0, ok))
          /\ IF ok
             THEN pc' = "ci_resize" /\ UNCHANGED <<stdout, result, outcomes>>
             ELSE Except
    /\ UNCHANGED <<folderKind, fs0, fs, args, caller, image_files, idx, successful,
                   failed, call, calls, outputs, written>>

\* lines 61-62: img.transform(resize=...) when width or height is truthy.
CiResize ==
    /\ pc = "ci_resize"
    /\ IF Truthy(call.width) \/ Truthy(call.height)
       THEN \E ok \in BOOLEAN :
              /\ libLog' = Append(libLog, Req("resize", NoPath,
                                              geometry(call.width, call.height), 0, ok))
              /\ IF ok
                 THEN pc' = "ci_quality" /\ UNCHANGED <<stdout, result, outcomes>>
                 ELSE Except
       ELSE /\ pc' = "ci_quality"
            /\ UNCHANGED <<libLog, stdout, result, outcomes>>
    /\ UNCHANGED <<folderKind, fs0, fs, args, caller, image_files, idx, successful,
                   failed, call, calls, outputs, written>>

\* lines 65-66: img.compression_quality = quality when quality is not None.
CiQuality ==
    /\ pc = "ci_quality"
    /\ IF call.quality # None
       THEN \E ok \in BOOLEAN :
              /\ libLog' = Append(libLog, Req("quality", NoPath, <<>>,
                                              call.quality[1], ok))
              /\ IF ok
                 THEN pc' = "ci_format" /\ UNCHANGED <<stdout, result, outcomes>>
                 ELSE Except
       ELSE /\ pc' = "ci_format"
            /\ UNCHANGED <<libLog, stdout, result, outcomes>>
    /\ UNCHANGED <<folderKind, fs0, fs, args, caller, image_files, idx, successful,
                   failed, call, calls, outputs, written>>

\* line 69: img.format = output_format.lower()
CiFormat ==
    /\ pc = "ci_format"
    /\ \E ok \in BOOLEAN :
          /\ libLog' = Append(libLog, Req("format", NoPath,
                                          lower(call.output_format), 0, ok))
          /\ IF ok
             THEN pc' = "ci_save" /\ UNCHANGED <<stdout, result, outcomes>>
             ELSE Except
    /\ UNCHANGED <<folderKind, fs0, fs, args, caller, image_files, idx, successful,
                   failed, call, calls, outputs, written>>

\* lines 70-71: img.save(filename=str(output_path)), then return True.  A
\* save that raises may leave a partial file behind.
CiSave ==
    /\ pc = "ci_save"
    /\ \E ok \in BOOLEAN, touched \in BOOLEAN :
          /\ ok => touched
          /\ libLog' = Append(libLog, Req("save", call.output_path[1], <<>>, 0, ok))
          /\ IF touched
             THEN /\ fs' = Extend(fs, call.output_path[1],
                                  IF ok THEN "conv" ELSE "partial")
                  /\ written' = written \cup {call.output_path[1]}
             ELSE UNCHANGED <<fs, written>>
          /\ IF ok
             THEN /\ result' = TRUE
                  /\ outcomes' = Append(outcomes, "true")
                  /\ pc' = "ci_return"
                  /\ UNCHANGED stdout
             ELSE Except
    /\ UNCHANGED <<folderKind, fs0, args, caller, image_files, idx, successful,
                   failed, call, calls, outputs>>

Next ==
    \/ FolderMissing
    \/ NotADirectory
    \/ NoFilesFound
    \/ FilesFound
    \/ LoopCall
    \/ Tally
    \/ Summary
    \/ DirectCall
    \/ CiOutputPath
    \/ CiOpen
    \/ CiResize
    \/ CiQuality
    \/ CiFormat
    \/ CiSave

Spec == Init /\ [][Next]_vars

(***************************************************************************)
(* Vocabulary of the properties.                                           *)
(***************************************************************************)
\* A run of convert_all_images that found files has ended.
BatchEnded == caller = "batch" /\ image_files # <<>> /\ pc \in {"done", "raised"}

\* A call of convert_image has ended, by return or by an exception.
CallEnded == pc \in {"ci_return", "raised"}

\* The files the pattern of the run matches in the folder as it was.
Matching == glob(fs0, pattern(normalize(args.input_format)))

Count(seq, v) == Cardinality({i \in DOMAIN seq : seq[i] = v})

RequestsOf(op) == {i \in DOMAIN libLog : libLog[i].op = op}

Opened == \E i \in RequestsOf("open") : libLog[i].ok

\* Every step of the call completed: the last request is a save, none raised.
AllStepsCompleted ==
    /\ libLog # <<>>
    /\ libLog[Len(libLog)].op = "save"
    /\ \A i \in DOMAIN libLog : libLog[i].ok

\* The text after the last dot of a name; nothing when there is no dot.
Extension(name) ==
    LET dots == {i \in DOMAIN name : name[i] = "."}
    IN  IF dots = {} THEN None
        ELSE Some(SubSeq(name, 1 + CHOOSE i \in dots : \A j \in dots : j <= i,
                         Len(name)))

\* A --from value without its one leading dot.
WithoutLeadingDot(fmt) == IF fmt # <<>> /\ Head(fmt) = "." THEN Tail(fmt) ELSE fmt

\* A name up to its final suffix: up to the last dot that is neither the
\* first nor the last character; the whole name when there is none.
StemOf(name) ==
    LET dots == {i \in 2..(Len(name) - 1) : name[i] = "."}
    IN  IF dots = {} THEN name
        ELSE SubSeq(name, 1, (CHOOSE i \in dots : \A j \in dots : j <= i) - 1)

\* The output path the running call is to write to.
ExpectedOutput ==
    IF call.given_output # None
    THEN call.given_output[1]
    ELSE Path(call.input_path.dir,
              StemOf(call.input_path.name) \o <<".">> \o lower(call.output_format))

\* The decimal text of the dimensions the model draws.
Decimal(v) ==
    CASE v = 0 - 1 -> <<"-", "1">>
      [] v = 0 -> <<"0">>
      [] v = 3 -> <<"3">>
      [] v = 12 -> <<"1", "2">>

Supplied(opt) == opt # None
NonZero(opt) == opt # None /\ opt[1] # 0

\* Exactly one resize request, before every save, with the given text.
OneResizeBeforeSave(text) ==
    /\ Cardinality(RequestsOf("resize")) = 1
    /\ \A i \in RequestsOf("resize") :
          /\ libLog[i].text = text
          /\ \A j \in RequestsOf("save") : i < j

(***************************************************************************)
(* The claims.                                                             *)
(***************************************************************************)

\* C1: when a run over an existing directory with N matching files has
\* ended, convert_image was called exactly N times, once for each matching
\* file and for none twice, and the last thing printed is the summary, with
\* successful + failed = N.
C1_OncePerFileAndSummed ==
    BatchEnded =>
        /\ Len(calls) = Cardinality(Matching)
        /\ \A p \in Matching : Count(calls, p) = 1
        /\ stdout[Len(stdout)] = SummaryMessage(successful, failed)
        /\ successful + failed = Cardinality(Matching)

\* C2: a failing convert_image call never stops the batch: when the run has
\* ended, every listed file was attempted, each call that did not return
\* True was counted in failed and in nothing else, and the run reached the
\* final summary.
C2_FailureDoesNotStopBatch ==
    BatchEnded =>
        /\ Len(outcomes) = Len(image_files)
        /\ failed = Len(outcomes) - Count(outcomes, "true")
        /\ successful = Count(outcomes, "true")
        /\ pc = "done"

\* C3: convert_image never raises past its own boundary: whatever step
\* fails, the call returns, False with an error message printed, and True
\* only when every step completed.
C3_NeverRaises ==
    /\ pc # "raised"
    /\ pc = "ci_return" =>
          /\ result <=> AllStepsCompleted
          /\ ~result => stdout[Len(stdout)].kind = "error"

\* C4: a run of convert_all_images never deletes or modifies a source file:
\* every file the pattern selected still exists with its original content,
\* and the only paths written are output paths the calls computed.
C4_SourcesUntouched ==
    caller = "batch" =>
        /\ \A i \in DOMAIN image_files :
              /\ image_files[i] \in DOMAIN fs
              /\ fs[image_files[i]] = "orig"
        /\ \A q \in written : \E i \in DOMAIN outputs : outputs[i] = q

\* C5: when the folder path is missing or is not a directory,
\* convert_all_images prints the matching error and nothing else, calls
\* convert_image zero times, writes no file and returns normally.
C5_InvalidFolderReported ==
    (caller = "batch" /\ folderKind # "dir") =>
        /\ pc = "returned"
        /\ Len(stdout) = 1
        /\ stdout[1].kind = (IF folderKind = "missing" THEN "not_exist" ELSE "not_dir")
        /\ calls = <<>>
        /\ libLog = <<>>
        /\ written = {}
        /\ fs = fs0

C5_Witness == caller = "batch" /\ folderKind = "file" /\ pc = "returned"

\* C6: when the folder is a directory in which no file matches the pattern,
\* convert_all_images prints "No <FORMAT> files found" with the normalized
\* format in upper case and nothing else (no summary), calls convert_image
\* zero times, creates no file and returns.
C6_NoMatchReported ==
    (caller = "batch" /\ folderKind = "dir" /\ Matching = {}) =>
        /\ pc = "returned"
        /\ stdout = <<Msg("no_files", upper(normalize(args.input_format)), 0, 0)>>
        /\ calls = <<>>
        /\ libLog = <<>>
        /\ written = {}
        /\ fs = fs0

C6_Witness ==
    /\ caller = "batch" /\ folderKind = "dir" /\ pc = "returned"
    /\ Path(Folder, <<"b", ".", "S">>) \in DOMAIN fs0
    /\ args.input_format = <<".", "S">>

\* C7: a file of the folder is selected if and only if its extension,
\* compared ignoring case, equals the --from value without its leading dot.
C7_SelectsIgnoringCase ==
    (caller = "batch" /\ folderKind = "dir") =>
        \A p \in DOMAIN fs0 :
            (\E i \in DOMAIN image_files : image_files[i] = p)
            <=> /\ Extension(p.name) # None
                /\ lower(Extension(p.name)[1])
                      = lower(WithoutLeadingDot(args.input_format))

\* C8: every save of a call goes to the output path given to the call, or,
\* when none was given, to the source path with its final suffix replaced by
\* "." and the lower-cased target format, in the source's directory; a call
\* that returned True has written the converted image there.
C8_OutputPath ==
    /\ \A i \in RequestsOf("save") : libLog[i].path = ExpectedOutput
    /\ (pc = "ci_return" /\ result) =>
          /\ RequestsOf("save") # {}
          /\ ExpectedOutput \in DOMAIN fs
          /\ fs[ExpectedOutput] = "conv"
          /\ ExpectedOutput \in written

C8_Witness ==
    /\ pc = "ci_return" /\ result
    /\ call.given_output = None
    /\ call.input_path = Path(Folder, <<"a", ".", "s">>)
    /\ call.output_format = <<".", "P">>
    /\ Path(Folder, <<"a", ".", ".", "p">>) \in written

\* C9 as stated: in a call that opened the image, if width or height is
\* supplied there is exactly one resize request, before the save, carrying
\* exactly the supplied dimensions with the unsupplied one empty; if neither
\* is supplied there is none.
C9_ResizeWhenSupplied ==
    (CallEnded /\ Opened) =>
        IF Supplied(call.width) \/ Supplied(call.height)
        THEN OneResizeBeforeSave(
                 (IF Supplied(call.width) THEN Decimal(call.width[1]) ELSE <<>>)
                 \o <<"x">>
                 \o (IF Supplied(call.height) THEN Decimal(call.height[1]) ELSE <<>>))
        ELSE RequestsOf("resize") = {}

\* C9 as amended: a width or height of 0 counts as not supplied.  A call
\* that opened the image and has a non-zero width or height makes exactly
\* one resize request, before the save, carrying the non-zero dimensions
\* with every other one empty; any other call makes none.
C9_ResizeWhenNonZero ==
    CallEnded =>
        IF Opened /\ (NonZero(call.width) \/ NonZero(call.height))
        THEN OneResizeBeforeSave(
                 (IF NonZero(call.width) THEN Decimal(call.width[1]) ELSE <<>>)
                 \o <<"x">>
                 \o (IF NonZero(call.height) THEN Decimal(call.height[1]) ELSE <<>>))
        ELSE RequestsOf("resize") = {}

C9_Witness ==
    /\ pc = "ci_return" /\ result
    /\ call.width = Some(0) /\ call.height = Some(3)
    /\ \E i \in RequestsOf("resize") :
          /\ libLog[i].text = <<"x", "3">>
          /\ \E j \in RequestsOf("save") : i < j

\* C10: within one batch, no two calls resolve the same output path.
C10_OutputsDistinct ==
    caller = "batch" =>
        \A i, j \in DOMAIN outputs : i # j => outputs[i] # outputs[j]

====
